---- MODULE Spec2Model ----
(***************************************************************************)
(* Model of the distributed compute orchestrator of                        *)
(* src/offchain/ocean_compute.py: DistributedOceanCompute with its         *)
(* DistributedComputeOrchestrator (partitioner) and ComputeMetricsTracker, *)
(* of the evaluator of src/offchain/model_evaluation.py, of the request    *)
(* handler of src/offchain/ROFL.py and of the dataset processor of         *)
(* src/offchain/data_processing.py.                                        *)
(*                                                                         *)
(* Six operations are modelled, each with its own specification:           *)
(*   SpecStart  start_distributed_compute  (validate, partition, dispatch, *)
(*              register)                                                  *)
(*   SpecPoll   monitor_distributed_compute (poll loop, then aggregation)  *)
(*   SpecAgg    _aggregate_results called on a job group                   *)
(*   SpecEval   AdvancedModelEvaluator.evaluate_model (collect and verify, *)
(*              metrics, verification, confidence score)                   *)
(*   SpecRofl   AIComputeROFL.handle_request, two requests interleaving at  *)
(*              the await of runtime.get_model                             *)
(*   SpecData   SecureDataProcessor.process_dataset (download, integrity   *)
(*              check, transformations, hash, upload)                      *)
(*                                                                         *)
(* What lies outside the file is the environment: the Ocean worker (submit,*)
(* status and result calls may answer or raise) and the content the        *)
(* tracker hands back for a group.  The ComputeMetricsTracker of the file  *)
(* is a placeholder (register_job_group stores nothing and answers the     *)
(* constant "job_group_id", get_jobs_in_group answers []); the job list    *)
(* that monitor and aggregate iterate over is therefore an input here,     *)
(* the empty list of the placeholder included.                             *)
(***************************************************************************)
EXTENDS Integers, Sequences, FiniteSets, TLC

\* ------------------------------------------------------------------ bounds
MaxPartitions == 3      \* largest num_partitions requested
MaxRecords == 3         \* largest dataset size (records)
MaxJobs == 2            \* largest job list the tracker hands back
MaxRounds == 3          \* poll rounds explored (the loop itself is unbounded)
MaxStarts == 2          \* start_distributed_compute calls explored
MaxAggCalls == 2        \* _aggregate_results calls explored per job state
MaxEvalJobs == 2        \* largest list start_distributed_eval hands back
MaxMetricValue == 2     \* largest value a metric calculator returns
MaxRequests == 2        \* handle_request calls explored, possibly concurrent
MaxUploads == 2         \* assets process_dataset creates
MaxMoves == 2           \* worker moves explored while one _aggregate_results call runs

VARIABLES
    \* start_distributed_compute
    ps,             \* position: "idle" | "dispatching" | "hung" | "returned" | "raised"
    start_err,      \* the exception the call raised, "none" otherwise
    environment_name, compute_config, partition_config, dataset_size,  \* arguments
    partitions,     \* what prepare_partitions returned
    submitted,      \* partition ids handed to _start_partition_compute, in order
    failed_parts,   \* partition ids whose dispatch raised
    compute_jobs,   \* the local list compute_jobs
    registered,     \* the arguments of every register_job_group call
    group_ids,      \* the group id every returned call gave back
    next_job_id,    \* the worker's job id counter
    start_calls,    \* start_distributed_compute calls made so far
    \* monitor_distributed_compute
    pm,             \* "idle" | "polling" | "sleeping" | "hung" | "cancelled" | "returned" | "raised"
    jobs,           \* what get_jobs_in_group answered
    poll_idx,       \* next job of the round
    statuses,       \* the round's list statuses
    rounds,         \* rounds slept so far (elapsed time / check_interval)
    recorded,       \* last status handed to update_job_metrics, per job
    status_queries, \* number of _get_job_status calls of this call
    \* the worker side
    worker,         \* per job: status reported by the worker
    attestation,    \* per job: "valid" or the reason verification would fail
    job_metrics,    \* per job: what get_job_metrics answers
    \* _aggregate_results
    pa,             \* "idle" | "ready": a job group is there to aggregate
    agg_history,    \* results returned since the job state last changed
    agg_raised,     \* the last _aggregate_results call raised
    verifier_calls, \* per job: attestation verifier invocations by _aggregate_results
    agg_pc,         \* the running _aggregate_results call: "idle" | "results" (a result call is awaited)
    agg_idx,        \* its job at hand
    agg_acc,        \* its local aggregated_results
    agg_last,       \* the value the last call returned, <<>> before any
    agg_moves,      \* jobs the worker moved while the call ran
    agg_calls,      \* _aggregate_results calls the monitor call made
    \* evaluate_model
    pe,             \* "idle" | "collecting" | "calculating" | "verifying" | "returned" | "raised"
    eval_err,       \* the exception the call raised, "none" otherwise
    eval_jobs,      \* what start_distributed_eval returned
    eval_evidence,  \* per evaluation job: the facts about its attestation
    eval_attestation, \* per evaluation job: what verify_job_attestation finds
    eval_results,   \* ids of the jobs whose results were collected
    metric_types,   \* eval_config['metric_types']
    eval_metrics,   \* what _calculate_metrics returned
    verification,   \* what verify_computation returned
    confidence_score, \* the returned 'confidence_score', an exact fraction
    \* AIComputeROFL.handle_request
    requests,       \* per request: where the call is, its model id, the stage that raised
    responses,      \* per request: the Response objects returned for it
    models_cache,   \* the model ids in self.models_cache
    get_model_calls,    \* per model id: runtime.get_model calls made
    get_model_failures, \* per model id: those of them that raised
    cache_stores,   \* per model id: times a loaded model was put into the cache
    \* SecureDataProcessor.process_dataset
    dp,             \* "idle" | "downloading" | "uploading" | "returned" | "raised"
    dp_err,         \* the exception the call raised, "none" otherwise
    dp_did,         \* the argument asset_did
    dp_transformations, \* the argument transformations
    dp_encrypt,     \* the argument encrypt_output
    dp_stages,      \* per stage of the call: "pending" | "ok" | "failed"
    dp_pending,     \* the file and metadata handed to ocean.assets.create
    assets,         \* the Ocean store: per DID, whether and what it resolves to
    uploaded        \* the DIDs process_dataset has created, in order

vars == <<ps, start_err, environment_name, compute_config, partition_config,
          dataset_size, partitions, submitted, failed_parts, compute_jobs,
          registered, group_ids, next_job_id, start_calls,
          pm, jobs, poll_idx, statuses, rounds, recorded, status_queries,
          worker, attestation, job_metrics, pa, agg_history, agg_raised,
          verifier_calls, agg_pc, agg_idx, agg_acc, agg_last,
          agg_moves, agg_calls,
          pe, eval_err, eval_jobs, eval_evidence, eval_attestation, eval_results,
          metric_types,
          eval_metrics, verification, confidence_score,
          requests, responses, models_cache, get_model_calls, get_model_failures,
          cache_stores,
          dp, dp_err, dp_did, dp_transformations, dp_encrypt, dp_stages, dp_pending,
          assets, uploaded>>

startVars == <<ps, start_err, environment_name, compute_config, partition_config,
               dataset_size, partitions, submitted, failed_parts, compute_jobs,
               registered, group_ids, next_job_id, start_calls>>
pollVars == <<pm, jobs, poll_idx, statuses, rounds, recorded, status_queries>>
workerVars == <<worker, attestation, job_metrics>>
aggVars == <<pa, agg_history, agg_raised, verifier_calls, agg_pc, agg_idx,
            agg_acc, agg_last, agg_moves, agg_calls>>
evalVars == <<pe, eval_err, eval_jobs, eval_evidence, eval_attestation,
              eval_results, metric_types,
              eval_metrics, verification, confidence_score>>
roflVars == <<requests, responses, models_cache, get_model_calls, get_model_failures,
             cache_stores>>
dataVars == <<dp, dp_err, dp_did, dp_transformations, dp_encrypt, dp_stages,
              dp_pending, assets, uploaded>>

\* ------------------------------------------------- environment catalogue
\* A value of a resources dict: an int or a str.
Num(n) == [kind |-> "int", n |-> n, s |-> ""]
Str(s) == [kind |-> "str", n |-> 0, s |-> s]

\* _initialize_environments: the resources of the four environments.
_initialize_environments ==
    [e \in {"pytorch-gpu", "tensorflow-gpu", "sklearn-cpu", "r-analytics"} |->
        CASE e = "pytorch-gpu"    -> [cpu_cores |-> Num(8), memory_gb |-> Num(32),
                                      gpu_count |-> Num(1), gpu_type |-> Str("NVIDIA-T4")]
          [] e = "tensorflow-gpu" -> [cpu_cores |-> Num(8), memory_gb |-> Num(32),
                                      gpu_count |-> Num(1), gpu_type |-> Str("NVIDIA-T4")]
          [] e = "sklearn-cpu"    -> [cpu_cores |-> Num(16), memory_gb |-> Num(64),
                                      gpu_count |-> Num(0)]
          [] e = "r-analytics"    -> [cpu_cores |-> Num(8), memory_gb |-> Num(32),
                                      gpu_count |-> Num(0)]]

\* environment.resources.get(resource, 0)
Capacity(env, resource) ==
    IF resource \in DOMAIN _initialize_environments[env]
    THEN _initialize_environments[env][resource]
    ELSE Num(0)

\* The strings requested or declared for gpu_type, in the order of str's '<'.
GpuTypes == <<"NVIDIA-A100", "NVIDIA-T4", "NVIDIA-V100">>
StrIndex(s) == CHOOSE i \in DOMAIN GpuTypes : GpuTypes[i] = s

\* required > capacity as Python evaluates it: ints by value, strs
\* lexicographically, and TypeError between an int and a str.
Compare(required, capacity) ==
    IF required.kind # capacity.kind THEN "TypeError"
    ELSE IF required.kind = "int"
    THEN (IF required.n > capacity.n THEN "greater"
          ELSE IF required.n = capacity.n THEN "equal" ELSE "less")
    ELSE (IF StrIndex(required.s) > StrIndex(capacity.s) THEN "greater"
          ELSE IF required.s = capacity.s THEN "equal" ELSE "less")

\* compute_config: None, a dict without 'resources', or a dict with it.  The
\* resources dict is the list of its items, in the order the loop meets them.
Item(resource, required) == [resource |-> resource, required |-> required]
NoResources == <<>>
ResourceRequests ==
    {<<Item("cpu_cores", Num(4)), Item("memory_gb", Num(16)), Item("gpu_count", Num(1))>>,
     <<Item("cpu_cores", Num(9))>>,
     <<Item("gpu_count", Num(1))>>,
     <<Item("disk_gb", Num(1))>>,
     <<Item("gpu_type", Num(1))>>,
     <<Item("gpu_type", Str("NVIDIA-A100"))>>,
     <<Item("gpu_type", Str("NVIDIA-V100"))>>,
     <<Item("gpu_type", Num(1)), Item("cpu_cores", Num(9))>>,
     <<Item("cpu_cores", Num(9)), Item("gpu_type", Num(1))>>}
ComputeConfigs ==
    {[kind |-> "none", resources |-> NoResources],
     [kind |-> "no_resources", resources |-> NoResources]}
    \cup {[kind |-> "resources", resources |-> r] : r \in ResourceRequests}

EnvironmentNames == {"pytorch-gpu", "sklearn-cpu", "quantum-tpu"}

\* The loop over required_resources.items() from item i on: the first item
\* whose comparison is in rejected raises ValueError, the first whose
\* comparison cannot be made raises TypeError.
RECURSIVE CheckResources(_, _, _, _)
CheckResources(env, items, i, rejected) ==
    IF i > Len(items) THEN "ok"
    ELSE LET c == Compare(items[i].required, Capacity(env, items[i].resource)) IN
         IF c = "TypeError" THEN "TypeError"
         ELSE IF c \in rejected THEN "ValueError"
         ELSE CheckResources(env, items, i + 1, rejected)

\* A mutant: a request equal to the capacity is rejected too.
_validate_environment_no_headroom(env, cfg) ==
    IF env \notin DOMAIN _initialize_environments
    THEN "ValueError"
    ELSE IF cfg.kind = "resources"
         THEN CheckResources(env, cfg.resources, 1, {"greater", "equal"})
         ELSE "ok"

\* _validate_environment: "ok" (the environment is returned) or the exception.
_validate_environment(env, cfg) ==
    IF env \notin DOMAIN _initialize_environments
    THEN "ValueError"
    ELSE IF cfg.kind = "resources"
         THEN CheckResources(env, cfg.resources, 1, {"greater"})
         ELSE "ok"

\* ------------------------------------------------------------ partitioner
Strategies == {"equal_size", "round_robin"}

\* partition_config (None counts as {}): num_partitions may be absent, an
\* integer, or a value range() rejects (None, a string).
PartitionConfigs ==
    {[num_kind |-> "absent", num |-> 1, strategy |-> "absent"]}
    \cup {[num_kind |-> "int", num |-> n, strategy |-> s] :
            n \in -1 .. MaxPartitions, s \in Strategies}
    \cup {[num_kind |-> "nonint", num |-> 1, strategy |-> "equal_size"]}

\* partition_config.get('num_partitions', 1)
NumPartitions(pcfg) == IF pcfg.num_kind = "absent" THEN 1 ELSE pcfg.num

\* prepare_partitions: [{'did': dataset_did, 'partition_id': i} for i in range(n)];
\* range(n) is empty for n < 1.  The strategy is not read.
prepare_partitions(dataset_did, pcfg) ==
    [i \in 1 .. (IF NumPartitions(pcfg) < 0 THEN 0 ELSE NumPartitions(pcfg)) |->
        [did |-> dataset_did, partition_id |-> i - 1]]

\* The records a partition's job computes over: _start_partition_compute
\* resolves partition['did'], the did of the whole dataset, and starts the job
\* on that asset; the partition carries no range.
RecordsOf(partition, size) == 1 .. size

DatasetDid == "did:op:123"

\* -------------------------------------------------------------- tracker
\* register_job_group: the placeholder answers the same id for every group.
register_job_group(job_list) == "job_group_id"

\* get_jobs_in_group: the placeholder answers [] for every group id.
get_jobs_in_group(job_group_id) == <<>>

\* ------------------------------------------------ start_distributed_compute
\* The call up to the dispatch loop: validation, then partitioning.
\* A mutant: the first partition is dispatched before the environment is validated.
start_begin_dispatch_first(env, cfg, pcfg) ==
    IF pcfg.num_kind = "nonint"
    THEN [phase |-> "raised", error |-> "TypeError",
          partitions |-> <<>>, submitted |-> <<>>]
    ELSE IF _validate_environment(env, cfg) # "ok"
    THEN [phase |-> "raised", error |-> _validate_environment(env, cfg),
          partitions |-> prepare_partitions(DatasetDid, pcfg),
          submitted |-> IF prepare_partitions(DatasetDid, pcfg) = <<>>
                        THEN <<>> ELSE <<0>>]
    ELSE [phase |-> "dispatching", error |-> "none",
          partitions |-> prepare_partitions(DatasetDid, pcfg), submitted |-> <<>>]

start_begin(env, cfg, pcfg) ==
    IF _validate_environment(env, cfg) # "ok"
    THEN [phase |-> "raised", error |-> _validate_environment(env, cfg),
          partitions |-> <<>>, submitted |-> <<>>]
    ELSE IF pcfg.num_kind = "nonint"
    THEN [phase |-> "raised", error |-> "TypeError",
          partitions |-> <<>>, submitted |-> <<>>]
    ELSE [phase |-> "dispatching", error |-> "none",
          partitions |-> prepare_partitions(DatasetDid, pcfg), submitted |-> <<>>]

\* A mutant: the job list is registered twice.
StartFinish_register_twice(job_list) ==
    /\ registered' = Append(Append(registered, job_list), job_list)
    /\ group_ids' = Append(group_ids, register_job_group(job_list))
    /\ ps' = "returned"

\* The end of the call once every partition has a job: register, return.
StartFinish(job_list) ==
    /\ registered' = Append(registered, job_list)
    /\ group_ids' = Append(group_ids, register_job_group(job_list))
    /\ ps' = "returned"

start_distributed_compute(env, cfg, pcfg, size) ==
    /\ ps = "idle"
    /\ start_calls < MaxStarts
    /\ start_calls' = start_calls + 1
    /\ environment_name' = env
    /\ compute_config' = cfg
    /\ partition_config' = pcfg
    /\ dataset_size' = size
    /\ LET b == start_begin(env, cfg, pcfg) IN
        /\ partitions' = b.partitions
        /\ submitted' = b.submitted
        /\ start_err' = b.error
        /\ failed_parts' = {}
        /\ compute_jobs' = <<>>
        /\ IF b.phase = "dispatching" /\ b.partitions = <<>>
           THEN StartFinish(<<>>)
           ELSE /\ ps' = b.phase
                /\ UNCHANGED <<registered, group_ids>>
    /\ UNCHANGED <<next_job_id, pollVars, workerVars, aggVars,
                   evalVars, roflVars, dataVars>>

\* One turn of the dispatch loop whose _start_partition_compute returns a job.
DispatchOk ==
    /\ ps = "dispatching"
    /\ LET p == partitions[Len(submitted) + 1]
           job == [job_id |-> next_job_id, partition |-> p,
                   environment |-> environment_name]
       IN /\ submitted' = Append(submitted, p.partition_id)
          /\ compute_jobs' = Append(compute_jobs, job)
          /\ next_job_id' = next_job_id + 1
          /\ IF Len(submitted) + 1 = Len(partitions)
             THEN StartFinish(Append(compute_jobs, job))
             ELSE UNCHANGED <<ps, registered, group_ids>>
    /\ UNCHANGED <<start_err, environment_name, compute_config, partition_config,
                   dataset_size, partitions, failed_parts, start_calls,
                   pollVars, workerVars, aggVars,
                   evalVars, roflVars, dataVars>>

\* One turn whose _start_partition_compute raises: it logs and re-raises, and
\* start_distributed_compute logs and re-raises; the loop is left.
DispatchRaise ==
    /\ ps = "dispatching"
    /\ LET p == partitions[Len(submitted) + 1] IN
          /\ submitted' = Append(submitted, p.partition_id)
          /\ failed_parts' = failed_parts \cup {p.partition_id}
    /\ ps' = "raised"
    /\ start_err' = "DispatchFailure"
    /\ UNCHANGED <<environment_name, compute_config, partition_config,
                   dataset_size, partitions, compute_jobs, registered, group_ids,
                   next_job_id, start_calls, pollVars, workerVars, aggVars,
                   evalVars, roflVars, dataVars>>

\* One turn whose _start_partition_compute never returns: the loop awaits it,
\* so the call stays where it is and the next partition is not reached.
DispatchHang ==
    /\ ps = "dispatching"
    /\ submitted' = Append(submitted, partitions[Len(submitted) + 1].partition_id)
    /\ ps' = "hung"
    /\ UNCHANGED <<start_err, environment_name, compute_config, partition_config,
                   dataset_size, partitions, failed_parts, compute_jobs, registered,
                   group_ids, next_job_id, start_calls, pollVars, workerVars, aggVars,
                   evalVars, roflVars, dataVars>>

\* The caller is back and may call again.
StartAgain ==
    /\ ps \in {"returned", "raised"}
    /\ start_calls < MaxStarts
    /\ ps' = "idle"
    /\ start_err' = "none"
    /\ partitions' = <<>>
    /\ submitted' = <<>>
    /\ failed_parts' = {}
    /\ compute_jobs' = <<>>
    /\ environment_name' = "pytorch-gpu"
    /\ compute_config' = [kind |-> "none", resources |-> NoResources]
    /\ partition_config' = [num_kind |-> "absent", num |-> 1, strategy |-> "absent"]
    /\ dataset_size' = 1
    /\ UNCHANGED <<registered, group_ids, next_job_id, start_calls,
                   pollVars, workerVars, aggVars,
                   evalVars, roflVars, dataVars>>

\* ------------------------------- data_processing.py: bytes, hashes, assets
\* A data frame: what it holds and whether transformations changed it.
DataFrames == [content : {"clean", "tampered"}, transformed : BOOLEAN]
NoFrame == [content |-> "none", transformed |-> FALSE]

\* Serialisations of a frame: the bytes name the format and the frame.
to_json(df) == [fmt |-> "json", frame |-> df]
to_csv(df) == [fmt |-> "csv", frame |-> df]
read_csv(file) == file.frame
NoBytes == [fmt |-> "none", frame |-> NoFrame]

\* hashlib.sha3_256(...).hexdigest(): equal digests for equal bytes only.
sha3_256(bytes) == [digest_of |-> bytes]
\* The value None where a digest is looked up and not there.
NoHash == [digest_of |-> NoBytes]

\* _generate_hash: the digest of the frame's JSON serialisation.
_generate_hash(df) == sha3_256(to_json(df))

\* A mutant: every file passes.
_verify_integrity_unchecked(file, metadata) == TRUE

\* _verify_integrity: the digest of the file's bytes against
\* metadata.get('contentHash'), the top-level key.
_verify_integrity(file, metadata) == sha3_256(file) = metadata.contentHash

\* The asset metadata _upload_to_ocean builds: the hash goes under 'main'.
asset_metadata(data_hash) ==
    [contentHash |-> NoHash, main |-> [contentHash |-> data_hash]]

\* DIDs: those of the assets there from the start, and those that
\* ocean.assets.create gives the assets process_dataset creates.
Did(name, n) == [name |-> name, n |-> n]
OriginalDids ==
    {Did(d, 0) : d \in {"did:op:missing", "did:op:noservice", "did:op:tampered",
                        "did:op:good"}}
CreatedDid(k) == Did("did:op:processed", k)
AllDids == OriginalDids \cup {CreatedDid(k) : k \in 1 .. MaxUploads}

CleanFrame == [content |-> "clean", transformed |-> FALSE]
PublishedMetadata ==
    [contentHash |-> sha3_256(to_csv(CleanFrame)), main |-> [contentHash |-> NoHash]]
NoAsset == [found |-> FALSE, has_service |-> FALSE, file |-> NoBytes,
            metadata |-> [contentHash |-> NoHash, main |-> [contentHash |-> NoHash]]]
OriginalAsset(did) ==
    IF did.name = "did:op:good"
    THEN [found |-> TRUE, has_service |-> TRUE, file |-> to_csv(CleanFrame),
          metadata |-> PublishedMetadata]
    ELSE IF did.name = "did:op:tampered"
    THEN [found |-> TRUE, has_service |-> TRUE,
          file |-> to_csv([content |-> "tampered", transformed |-> FALSE]),
          metadata |-> PublishedMetadata]
    ELSE IF did.name = "did:op:noservice"
    THEN [found |-> TRUE, has_service |-> FALSE, file |-> to_csv(CleanFrame),
          metadata |-> PublishedMetadata]
    ELSE NoAsset

StagesPending ==
    [resolve |-> "pending", service |-> "pending", download |-> "pending",
     integrity |-> "pending", transform |-> "pending", upload |-> "pending"]
NoPending == [file |-> NoBytes, metadata |-> NoAsset.metadata]

InitData ==
    /\ dp = "idle"
    /\ dp_err = "none"
    /\ dp_did = Did("did:op:good", 0)
    /\ dp_transformations = "none"
    /\ dp_encrypt = FALSE
    /\ dp_stages = StagesPending
    /\ dp_pending = NoPending
    /\ assets = [did \in AllDids |-> OriginalAsset(did)]
    /\ uploaded = <<>>

\* The model ids requests ask for.
ModelIds == {"model-a", "model-b"}

Init ==
    /\ ps = "idle"
    /\ start_err = "none"
    /\ environment_name = "pytorch-gpu"
    /\ compute_config = [kind |-> "none", resources |-> NoResources]
    /\ partition_config = [num_kind |-> "absent", num |-> 1, strategy |-> "absent"]
    /\ dataset_size = 1
    /\ partitions = <<>>
    /\ submitted = <<>>
    /\ failed_parts = {}
    /\ compute_jobs = <<>>
    /\ registered = <<>>
    /\ group_ids = <<>>
    /\ next_job_id = 1
    /\ start_calls = 0
    /\ pm = "idle"
    /\ jobs = <<>>
    /\ poll_idx = 1
    /\ statuses = <<>>
    /\ rounds = 0
    /\ recorded = <<>>
    /\ status_queries = 0
    /\ worker = <<>>
    /\ attestation = <<>>
    /\ job_metrics = <<>>
    /\ pa = "idle"
    /\ agg_history = <<>>
    /\ agg_raised = FALSE
    /\ verifier_calls = <<>>
    /\ agg_pc = "idle"
    /\ agg_idx = 1
    /\ agg_acc = [success_count |-> 0, failed_count |-> 0, total_compute_time |-> 0,
                  results |-> <<>>, metrics |-> <<>>]
    /\ agg_last = <<>>
    /\ agg_moves = 0
    /\ agg_calls = 0
    /\ pe = "idle"
    /\ eval_err = "none"
    /\ eval_jobs = <<>>
    /\ eval_evidence = <<>>
    /\ eval_attestation = <<>>
    /\ eval_results = {}
    /\ metric_types = {}
    /\ eval_metrics = <<>>
    /\ verification = <<>>
    /\ confidence_score = [num |-> 0, den |-> 1]
    /\ requests = [r \in 1 .. MaxRequests |->
                      [pc |-> "idle", model_id |-> "none", raised |-> "none"]]
    /\ responses = [r \in 1 .. MaxRequests |-> <<>>]
    /\ models_cache = {}
    /\ get_model_calls = [m \in ModelIds |-> 0]
    /\ get_model_failures = [m \in ModelIds |-> 0]
    /\ cache_stores = [m \in ModelIds |-> 0]
    /\ InitData

NextStart ==
    \/ /\ ps = "idle"
       /\ \E env \in EnvironmentNames, cfg \in ComputeConfigs,
             pcfg \in PartitionConfigs, size \in 1 .. MaxRecords :
               start_distributed_compute(env, cfg, pcfg, size)
    \/ DispatchOk
    \/ DispatchRaise
    \/ DispatchHang
    \/ StartAgain

SpecStart == Init /\ [][NextStart]_vars

\* ------------------------------------------------------------ worker side
\* What the worker reports for a job (_get_job_status and _get_job_results
\* pass it on); the monitor treats 'completed' and 'failed' as final.
WorkerStatuses == {"pending", "running", "completed", "failed"}
TerminalStatuses == {"completed", "failed"}
AttestationVerdicts == {"valid", "MeasurementMismatch"}
\* get_job_metrics: a dict from metric name to value; {} is the placeholder's answer.
NoMetrics == [k \in {} |-> 0]
MetricDicts == {NoMetrics, [accuracy |-> 88], [accuracy |-> 92]}

JobList(n) == [i \in 1 .. n |-> [job_id |-> i]]

\* _get_job_results(job_id): status, data and compute_time of the job.
_get_job_results(job_id, w) ==
    [status |-> w[job_id], data |-> job_id, compute_time |-> job_id]

\* ------------------------------------------------------ _aggregate_results
\* The accumulator aggregated_results: a dict local to the call.
\* A mutant: the accumulator outlives the call and is folded into again.
aggregated_results_kept(earlier) ==
    IF earlier = <<>>
    THEN [success_count |-> 0, failed_count |-> 0, total_compute_time |-> 0,
          results |-> <<>>, metrics |-> NoMetrics]
    ELSE [success_count |-> earlier[Len(earlier)].success_count,
          failed_count |-> earlier[Len(earlier)].failed_count,
          total_compute_time |-> earlier[Len(earlier)].total_compute_time,
          results |-> earlier[Len(earlier)].results, metrics |-> NoMetrics]

aggregated_results_init(earlier) ==
    [success_count |-> 0, failed_count |-> 0, total_compute_time |-> 0,
     results |-> <<>>, metrics |-> NoMetrics]

\* A mutant: only a job reported 'failed' counts as failed.
aggregate_job_failed_only(acc, job_results, metrics) ==
    [success_count |-> acc.success_count
                        + (IF job_results.status = "completed" THEN 1 ELSE 0),
     failed_count |-> acc.failed_count
                        + (IF job_results.status = "failed" THEN 1 ELSE 0),
     total_compute_time |-> acc.total_compute_time + job_results.compute_time,
     results |-> IF job_results.status = "completed"
                 THEN Append(acc.results, job_results.data) ELSE acc.results,
     metrics |-> acc.metrics]

\* One turn of the loop over the jobs: count, collect the data of a
\* 'completed' job, add the compute time, append every metric value.
aggregate_job(acc, job_results, metrics) ==
    [success_count |-> acc.success_count
                        + (IF job_results.status = "completed" THEN 1 ELSE 0),
     failed_count |-> acc.failed_count
                        + (IF job_results.status = "completed" THEN 0 ELSE 1),
     total_compute_time |-> acc.total_compute_time + job_results.compute_time,
     results |-> IF job_results.status = "completed"
                 THEN Append(acc.results, job_results.data) ELSE acc.results,
     metrics |-> [k \in DOMAIN acc.metrics \cup DOMAIN metrics |->
                    (IF k \in DOMAIN acc.metrics THEN acc.metrics[k] ELSE <<>>)
                    \o (IF k \in DOMAIN metrics THEN <<metrics[k]>> ELSE <<>>)]]

RECURSIVE SeqSum(_)
SeqSum(values) ==
    IF values = <<>> THEN 0 ELSE Head(values) + SeqSum(Tail(values))

\* sum(values) / len(values), kept as the exact fraction.
Mean(values) == [num |-> SeqSum(values), den |-> Len(values)]

\* The loop after the jobs: every list of metric values becomes its mean.
average_metrics(acc) ==
    [acc EXCEPT !.metrics = [k \in DOMAIN acc.metrics |-> Mean(acc.metrics[k])]]

\* return aggregated_results: the call is over.  The value is the last one
\* returned; it joins agg_history when no job moved while the call ran.
AggregateFinish(acc) ==
    /\ agg_pc' = "idle"
    /\ agg_idx' = 1
    /\ agg_acc' = aggregated_results_init(<<>>)
    /\ agg_last' = <<average_metrics(acc)>>
    /\ agg_history' = IF agg_moves > 0 THEN agg_history
                      ELSE Append(agg_history, average_metrics(acc))
    /\ agg_raised' = FALSE

\* The call up to its first result call: the jobs of the group are read from
\* the tracker and the accumulator is built.  With no job the loops have
\* nothing to do and the call returns.
AggregateBegin(job_list) ==
    /\ agg_moves' = 0
    /\ IF job_list = <<>>
       THEN AggregateFinish(aggregated_results_init(agg_history))
       ELSE /\ agg_pc' = "results"
            /\ agg_idx' = 1
                    /\ agg_acc' = aggregated_results_init(agg_history)
            /\ agg_raised' = FALSE
            /\ UNCHANGED <<agg_last, agg_history>>

\* The result call of the job at hand answers with what the worker reports
\* now, and the turn of the loop runs to its end (get_job_metrics of the
\* tracker answers without suspending the call); the next job's result call
\* follows, or the means and the return, which a monitor call that awaited
\* the value returns in turn.
ResultsReturn ==
    /\ agg_pc = "results"
    /\ LET acc == aggregate_job(agg_acc,
                                _get_job_results(jobs[agg_idx].job_id, worker),
                                job_metrics[jobs[agg_idx].job_id])
       IN IF agg_idx = Len(jobs)
          THEN /\ AggregateFinish(acc)
               /\ pm' = IF pm = "aggregating" THEN "returned" ELSE pm
          ELSE /\ agg_acc' = acc
               /\ agg_idx' = agg_idx + 1
               /\ UNCHANGED <<pm, agg_pc, agg_history, agg_raised, agg_last>>
    /\ UNCHANGED <<roflVars, dataVars, evalVars, startVars, jobs, poll_idx, statuses,
                   rounds, recorded, status_queries, workerVars, pa, verifier_calls,
                   agg_moves, agg_calls>>

\* _get_job_results or get_job_metrics raises: logged and re-raised, by
\* _aggregate_results and by a monitor call that awaited it.
AggregateRaise ==
    /\ agg_pc = "results"
    /\ agg_pc' = "idle"
    /\ agg_idx' = 1
    /\ agg_acc' = aggregated_results_init(<<>>)
    /\ agg_raised' = TRUE
    /\ pm' = IF pm = "aggregating" THEN "raised" ELSE pm
    /\ UNCHANGED <<roflVars, dataVars, evalVars, startVars, jobs, poll_idx, statuses,
                   rounds, recorded, status_queries, workerVars, pa, verifier_calls,
                   agg_history, agg_last, agg_moves, agg_calls>>

\* ---------------------------------------------- monitor_distributed_compute
\* The end of the loop: _aggregate_results is called and awaited.
MonitorFinish ==
    /\ pm' = IF jobs' = <<>> THEN "returned" ELSE "aggregating"
    /\ agg_calls' = agg_calls + 1
    /\ AggregateBegin(jobs')

\* The call up to the first status query: get_jobs_in_group answers n jobs.
\* With no job the loop body has nothing to do and completed is all([]) = True.
monitor_distributed_compute(n, w) ==
    /\ pm = "idle"
    /\ jobs' = JobList(n)
    /\ worker' = w
    /\ attestation' = [i \in 1 .. n |-> "valid"]
    /\ job_metrics' = [i \in 1 .. n |-> NoMetrics]
    /\ recorded' = [i \in 1 .. n |-> "none"]
    /\ statuses' = <<>>
    /\ poll_idx' = 1
    /\ rounds' = 0
    /\ status_queries' = 0
    /\ IF n = 0
       THEN MonitorFinish
       ELSE /\ pm' = "polling"
            /\ UNCHANGED <<agg_history, agg_raised, agg_pc, agg_idx, agg_acc,
                           agg_last, agg_moves, agg_calls>>
    /\ UNCHANGED <<roflVars, dataVars, evalVars, startVars, pa, verifier_calls>>

\* A mutant: one terminal status ends the loop.
AllComplete_any(round_statuses) ==
    \E i \in 1 .. Len(round_statuses) : round_statuses[i] \in TerminalStatuses

\* all(s['status'] in ['completed', 'failed'] for s in statuses)
AllComplete(round_statuses) ==
    \A i \in 1 .. Len(round_statuses) : round_statuses[i] \in TerminalStatuses

\* update_job_metrics(job_id, status): the tracker is handed the status (the
\* placeholder keeps nothing; recorded is the log of what it was handed last).
update_job_metrics(rec, job_id, status) == [rec EXCEPT ![job_id] = status]

\* One status query of the round that answers: the status is appended and
\* handed to the tracker; after the last job of the round the loop either
\* ends (_aggregate_results is called) or goes to sleep.
PollJob ==
    /\ pm = "polling"
    /\ LET job_id == jobs[poll_idx].job_id
           status == worker[job_id]
           round_statuses == Append(statuses, status)
       IN /\ statuses' = round_statuses
          /\ recorded' = update_job_metrics(recorded, job_id, status)
          /\ status_queries' = status_queries + 1
          /\ UNCHANGED <<jobs, rounds, workerVars>>
          /\ IF poll_idx < Len(jobs)
             THEN /\ poll_idx' = poll_idx + 1
                  /\ UNCHANGED <<pm, agg_history, agg_raised, agg_pc, agg_idx,
                                 agg_acc, agg_last, agg_moves,
                                 agg_calls>>
             ELSE /\ poll_idx' = 1
                  /\ IF AllComplete(round_statuses)
                     THEN MonitorFinish
                     ELSE /\ pm' = "sleeping"
                          /\ UNCHANGED <<agg_history, agg_raised, agg_pc, agg_idx,
                                         agg_acc, agg_last,
                                         agg_moves, agg_calls>>
    /\ UNCHANGED <<roflVars, dataVars, evalVars, startVars, pa, verifier_calls>>

\* A status query that raises: monitor logs and re-raises.
PollRaise ==
    /\ pm = "polling"
    /\ pm' = "raised"
    /\ status_queries' = status_queries + 1
    /\ UNCHANGED <<roflVars, dataVars, evalVars, startVars, jobs, poll_idx, statuses,
                   rounds, recorded, workerVars, aggVars>>

\* A status query that never answers: the loop awaits it, so the jobs after
\* it are not queried and the call does not come back.
PollHang ==
    /\ pm = "polling"
    /\ pm' = "hung"
    /\ status_queries' = status_queries + 1
    /\ UNCHANGED <<roflVars, dataVars, evalVars, startVars, jobs, poll_idx, statuses,
                   rounds, recorded, workerVars, aggVars>>

\* asyncio.sleep(check_interval), then the next round.
Sleep ==
    /\ pm = "sleeping"
    /\ rounds < MaxRounds
    /\ rounds' = rounds + 1
    /\ statuses' = <<>>
    /\ pm' = "polling"
    /\ UNCHANGED <<roflVars, dataVars, evalVars, startVars, jobs, poll_idx, recorded,
                   status_queries, workerVars, aggVars>>

\* The worker moves a job to another status while the monitor polls, sleeps
\* or awaits a call of _aggregate_results.
WorkerStep(j, s) ==
    /\ pm \in {"polling", "sleeping", "aggregating"}
    /\ j \in DOMAIN worker
    /\ worker[j] # s
    /\ agg_pc # "idle" => agg_moves < MaxMoves
    /\ worker' = [worker EXCEPT ![j] = s]
    /\ agg_moves' = IF agg_pc # "idle" THEN agg_moves + 1 ELSE 0
    /\ UNCHANGED <<roflVars, dataVars, evalVars, startVars, pollVars, attestation,
                   job_metrics, pa, agg_history, agg_raised, verifier_calls,
                   agg_pc, agg_idx, agg_acc, agg_last, agg_calls>>

\* The caller cancels the task while it awaits a status query, a result or
\* metrics call of _aggregate_results, or sleeps: CancelledError is raised at
\* the await; it is not an Exception, so no handler runs, and nothing else is
\* done.
MonitorCancel ==
    /\ pm \in {"polling", "sleeping", "hung", "aggregating"}
    /\ pm' = "cancelled"
    /\ agg_pc' = "idle"
    /\ agg_idx' = 1
    /\ agg_acc' = aggregated_results_init(<<>>)
    /\ UNCHANGED <<roflVars, dataVars, evalVars, startVars, jobs, poll_idx, statuses,
                   rounds, recorded, status_queries, workerVars, pa, agg_history,
                   agg_raised, verifier_calls, agg_last, agg_moves, agg_calls>>

MonitorAgain ==
    /\ pm \in {"returned", "raised", "cancelled"}
    /\ pm' = "idle"
    /\ jobs' = <<>>
    /\ poll_idx' = 1
    /\ statuses' = <<>>
    /\ rounds' = 0
    /\ recorded' = <<>>
    /\ status_queries' = 0
    /\ worker' = <<>>
    /\ attestation' = <<>>
    /\ job_metrics' = <<>>
    /\ agg_history' = <<>>
    /\ agg_raised' = FALSE
    /\ agg_last' = <<>>
    /\ agg_moves' = 0
    /\ agg_calls' = 0
    /\ UNCHANGED <<roflVars, dataVars, evalVars, startVars, pa, verifier_calls,
                   agg_pc, agg_idx, agg_acc>>

NextPoll ==
    \/ /\ pm = "idle"
       /\ \E n \in 0 .. MaxJobs : \E w \in [1 .. n -> WorkerStatuses] :
            monitor_distributed_compute(n, w)
    \/ PollJob
    \/ PollRaise
    \/ PollHang
    \/ MonitorCancel
    \/ Sleep
    \/ \E j \in 1 .. MaxJobs, s \in WorkerStatuses : WorkerStep(j, s)
    \/ ResultsReturn
    \/ AggregateRaise
    \/ MonitorAgain

SpecPoll == Init /\ [][NextPoll]_vars

\* ------------------------------------------- _aggregate_results, called
\* A job group is in the tracker: n jobs, each with the status the worker
\* reports, its attestation and its metrics.
TrackGroup(n, w, a, m) ==
    /\ pa = "idle"
    /\ pa' = "ready"
    /\ jobs' = JobList(n)
    /\ worker' = w
    /\ attestation' = a
    /\ job_metrics' = m
    /\ verifier_calls' = [i \in 1 .. n |-> 0]
    /\ UNCHANGED <<roflVars, dataVars, evalVars, startVars, pm, poll_idx, statuses,
                   rounds, recorded, status_queries, agg_history, agg_raised,
                   agg_pc, agg_idx, agg_acc, agg_last, agg_moves,
                   agg_calls>>

\* A call of _aggregate_results(job_group_id) begins.
AggregateCall ==
    /\ pa = "ready"
    /\ agg_pc = "idle"
    /\ Len(agg_history) < MaxAggCalls
    /\ AggregateBegin(jobs)
    /\ UNCHANGED <<roflVars, dataVars, evalVars, startVars, pollVars, workerVars,
                   pa, verifier_calls, agg_calls>>

\* The worker moves a job to another status, between two calls or while a
\* call awaits a result: the results returned before are those of another
\* job state.
JobStateChange(j, s) ==
    /\ pa = "ready"
    /\ j \in DOMAIN worker
    /\ worker[j] # s
    /\ IF agg_pc # "idle" THEN agg_moves < MaxMoves ELSE agg_history # <<>>
    /\ worker' = [worker EXCEPT ![j] = s]
    /\ agg_history' = <<>>
    /\ agg_last' = <<>>
    /\ agg_raised' = FALSE
    /\ agg_moves' = IF agg_pc # "idle" THEN agg_moves + 1 ELSE 0
    /\ UNCHANGED <<roflVars, dataVars, evalVars, startVars, pollVars, attestation,
                   job_metrics, pa, verifier_calls, agg_pc, agg_idx, agg_acc,
                   agg_calls>>

NextAgg ==
    \/ /\ pa = "idle"
       /\ \E n \in 0 .. MaxJobs :
            \E w \in [1 .. n -> WorkerStatuses], a \in [1 .. n -> AttestationVerdicts],
               m \in [1 .. n -> MetricDicts] : TrackGroup(n, w, a, m)
    \/ AggregateCall
    \/ ResultsReturn
    \/ AggregateRaise
    \/ \E j \in 1 .. MaxJobs, s \in WorkerStatuses : JobStateChange(j, s)

SpecAgg == Init /\ [][NextAgg]_vars

\* ------------------------------- model_evaluation.py: evaluate_model
\* A metric value: None, or the number a calculator returned.
NoneValue == [is_none |-> TRUE, value |-> 0]
MetricValue(v) == [is_none |-> FALSE, value |-> v]
CalculatorOutcomes == {NoneValue} \cup {MetricValue(v) : v \in 0 .. MaxMetricValue}

\* metrics_registry: per metric type the names of its calculators (the
\* calculators themselves are not in the repository).
metrics_registry ==
    [t \in {"classification", "regression", "ranking", "clustering", "robustness"} |->
        CASE t = "classification" ->
                {"accuracy", "precision", "recall", "f1_score", "auc_roc", "auc_pr",
                 "confusion_matrix", "balanced_accuracy", "matthews_correlation",
                 "cohen_kappa", "class_likelihood", "calibration_metrics"}
          [] t = "regression" ->
                {"mse", "rmse", "mae", "mape", "r2_score", "adjusted_r2",
                 "explained_variance", "max_error", "residual_analysis",
                 "heteroscedasticity"}
          [] t = "ranking" ->
                {"ndcg", "map_score", "mrr", "precision_at_k", "recall_at_k",
                 "hit_rate", "rank_correlation"}
          [] t = "clustering" ->
                {"silhouette_score", "calinski_harabasz", "davies_bouldin",
                 "cluster_stability", "cluster_cohesion"}
          [] t = "robustness" ->
                {"noise_sensitivity", "adversarial_robustness", "concept_drift",
                 "feature_importance", "model_calibration"}]

\* eval_config['metric_types'] as explored; "custom" is not in the registry.
MetricTypeChoices ==
    {{}, {"classification"}, {"regression"}, {"ranking"}, {"clustering"},
     {"robustness"}, {"classification", "robustness"},
     {"classification", "custom"}}

\* The calculators whose outcome is explored one by one: the first two of
\* each type; the other calculators of a type all do the same.
Scripted ==
    [t \in DOMAIN metrics_registry |->
        CASE t = "classification" -> {"accuracy", "precision"}
          [] t = "regression" -> {"mse", "rmse"}
          [] t = "ranking" -> {"ndcg", "map_score"}
          [] t = "clustering" -> {"silhouette_score", "calinski_harabasz"}
          [] t = "robustness" -> {"noise_sensitivity", "adversarial_robustness"}]

\* What the calculators of one type do on the collected results: a value
\* each, or the exception that _calculate_metrics turns into None.
TypeRuns(t) ==
    {[name \in metrics_registry[t] |->
        IF name \in Scripted[t] THEN one[name] ELSE others] :
            one \in [Scripted[t] -> CalculatorOutcomes], others \in CalculatorOutcomes}

\* The same for the requested types that are in the registry.
CalculatorRuns(types) ==
    LET known == types \cap DOMAIN metrics_registry IN
    {run \in [known -> UNION {TypeRuns(t) : t \in known}] :
        \A t \in known : run[t] \in TypeRuns(t)}

\* _calculate_metrics: one dict per requested type that is in the registry;
\* a type that is not in the registry is skipped.
_calculate_metrics(types, run) ==
    [t \in types \cap DOMAIN metrics_registry |->
        [name \in metrics_registry[t] |-> run[t][name]]]

\* What verify_computation returns: the dict, of which 'confidence' is read.
VerificationConfidences == {0, 1}
Verifications == {[confidence |-> c] : c \in VerificationConfidences}

\* sum(valid_metrics) / len(valid_metrics) for one metric type.
valid_metrics(metric_values) ==
    {name \in DOMAIN metric_values : ~ metric_values[name].is_none}
RECURSIVE ValueSum(_, _)
ValueSum(names, metric_values) ==
    IF names = {} THEN 0
    ELSE LET name == CHOOSE x \in names : TRUE
         IN metric_values[name].value + ValueSum(names \ {name}, metric_values)
TypeScore(metric_values) ==
    [num |-> ValueSum(valid_metrics(metric_values), metric_values),
     den |-> Cardinality(valid_metrics(metric_values))]

\* Exact sum of the fractions scores[t], t in types.
FracAdd(a, b) == [num |-> a.num * b.den + b.num * a.den, den |-> a.den * b.den]
RECURSIVE ScoreSum(_, _)
ScoreSum(types, metrics) ==
    IF types = {} THEN [num |-> 0, den |-> 1]
    ELSE LET t == CHOOSE x \in types : TRUE
         IN FracAdd(TypeScore(metrics[t]), ScoreSum(types \ {t}, metrics))

\* _calculate_confidence: the verification score when no metric type has a
\* value, else the mean of the verification score and the mean of the
\* per-type means.
_calculate_confidence(metrics, verif) ==
    LET verification_score ==
            IF "confidence" \in DOMAIN verif THEN verif.confidence ELSE 0
        scored == {t \in DOMAIN metrics : valid_metrics(metrics[t]) # {}}
        total == ScoreSum(scored, metrics)
        metric_confidence ==
            [num |-> total.num, den |-> total.den * Cardinality(scored)]
    IN IF scored = {}
       THEN [num |-> verification_score, den |-> 1]
       ELSE [num |-> verification_score * metric_confidence.den
                        + metric_confidence.num,
             den |-> 2 * metric_confidence.den]

\* What the attestation verifier has to decide about one attestation: the
\* outcome of each of its four checks.
Attestations ==
    [signature_valid : BOOLEAN, signer_trusted : BOOLEAN,
     measurement_approved : BOOLEAN, fresh : BOOLEAN]

\* A mutant: freshness is checked before the measurement.
verify_freshness_before_measurement(att) ==
    IF ~ att.signature_valid THEN [is_valid |-> FALSE, reason |-> "SignatureInvalid"]
    ELSE IF ~ att.signer_trusted THEN [is_valid |-> FALSE, reason |-> "UntrustedSigner"]
    ELSE IF ~ att.fresh THEN [is_valid |-> FALSE, reason |-> "StaleAttestation"]
    ELSE IF ~ att.measurement_approved
    THEN [is_valid |-> FALSE, reason |-> "MeasurementMismatch"]
    ELSE [is_valid |-> TRUE, reason |-> "none"]

\* TEEAttestationVerifier.verify: signature, signer, measurement, freshness,
\* stopping at the first check that fails.
verify(att) ==
    IF ~ att.signature_valid THEN [is_valid |-> FALSE, reason |-> "SignatureInvalid"]
    ELSE IF ~ att.signer_trusted THEN [is_valid |-> FALSE, reason |-> "UntrustedSigner"]
    ELSE IF ~ att.measurement_approved
    THEN [is_valid |-> FALSE, reason |-> "MeasurementMismatch"]
    ELSE IF ~ att.fresh THEN [is_valid |-> FALSE, reason |-> "StaleAttestation"]
    ELSE [is_valid |-> TRUE, reason |-> "none"]

\* verify_job_attestation: the verifier's result, kept as "valid" or the reason.
verify_job_attestation(att) ==
    IF verify(att).is_valid THEN "valid" ELSE verify(att).reason

\* The call up to the loop of _collect_verify_results: start_distributed_eval
\* hands back n jobs.
evaluate_model(n, evidence, types) ==
    /\ pe = "idle"
    /\ eval_jobs' = [i \in 1 .. n |-> [id |-> i]]
    /\ eval_evidence' = evidence
    /\ eval_attestation' = [i \in 1 .. n |-> verify_job_attestation(evidence[i])]
    /\ eval_results' = {}
    /\ metric_types' = types
    /\ eval_metrics' = <<>>
    /\ verification' = <<>>
    /\ confidence_score' = [num |-> 0, den |-> 1]
    /\ eval_err' = "none"
    /\ pe' = IF n = 0 THEN "calculating" ELSE "collecting"
    /\ UNCHANGED <<startVars, pollVars, workerVars, aggVars,
                   roflVars, dataVars>>

\* One turn of the loop of _collect_verify_results: the job's attestation is
\* verified; an invalid one raises ValueError, which evaluate_model prints
\* and re-raises; else the job's results are collected.
CollectJob ==
    /\ pe = "collecting"
    /\ LET job == eval_jobs[Cardinality(eval_results) + 1]
       IN IF eval_attestation[job.id] # "valid"
          THEN /\ pe' = "raised"
               /\ eval_err' = "ValueError"
               /\ UNCHANGED eval_results
          ELSE /\ eval_results' = eval_results \cup {job.id}
               /\ pe' = IF job.id = Len(eval_jobs) THEN "calculating" ELSE "collecting"
               /\ UNCHANGED eval_err
    /\ UNCHANGED <<eval_jobs, eval_evidence, eval_attestation, metric_types, eval_metrics,
                   verification, confidence_score,
                   startVars, pollVars, workerVars, aggVars,
                   roflVars, dataVars>>

CalculateMetrics(run) ==
    /\ pe = "calculating"
    /\ eval_metrics' = _calculate_metrics(metric_types, run)
    /\ pe' = "verifying"
    /\ UNCHANGED <<eval_err, eval_jobs, eval_evidence, eval_attestation, eval_results,
                   metric_types,
                   verification, confidence_score,
                   startVars, pollVars, workerVars, aggVars,
                   roflVars, dataVars>>

\* verify_computation returns and evaluate_model returns its dict.
VerifyReturn(verif) ==
    /\ pe = "verifying"
    /\ verification' = verif
    /\ confidence_score' = _calculate_confidence(eval_metrics, verif)
    /\ pe' = "returned"
    /\ UNCHANGED <<eval_err, eval_jobs, eval_evidence, eval_attestation, eval_results,
                   metric_types,
                   eval_metrics, startVars, pollVars, workerVars, aggVars,
                   roflVars, dataVars>>

\* verify_computation raises: it re-raises, and so does evaluate_model.
VerifyRaise ==
    /\ pe = "verifying"
    /\ pe' = "raised"
    /\ eval_err' = "VerificationError"
    /\ UNCHANGED <<eval_jobs, eval_evidence, eval_attestation, eval_results, metric_types,
                   eval_metrics, verification, confidence_score,
                   startVars, pollVars, workerVars, aggVars,
                   roflVars, dataVars>>

EvaluateAgain ==
    /\ pe \in {"returned", "raised"}
    /\ pe' = "idle"
    /\ eval_err' = "none"
    /\ eval_jobs' = <<>>
    /\ eval_evidence' = <<>>
    /\ eval_attestation' = <<>>
    /\ eval_results' = {}
    /\ metric_types' = {}
    /\ eval_metrics' = <<>>
    /\ verification' = <<>>
    /\ confidence_score' = [num |-> 0, den |-> 1]
    /\ UNCHANGED <<startVars, pollVars, workerVars, aggVars,
                   roflVars, dataVars>>

NextEval ==
    \/ /\ pe = "idle"
       /\ \E n \in 0 .. MaxEvalJobs :
            \E evidence \in [1 .. n -> Attestations], types \in MetricTypeChoices :
                evaluate_model(n, evidence, types)
    \/ CollectJob
    \/ /\ pe = "calculating"
       /\ \E run \in CalculatorRuns(metric_types) : CalculateMetrics(run)
    \/ \E verif \in Verifications : VerifyReturn(verif)
    \/ VerifyRaise
    \/ EvaluateAgain

SpecEval == Init /\ [][NextEval]_vars

\* ------------------------------------ ROFL.py: AIComputeROFL.handle_request
\* What the steps after the model is at hand do: _execute_model returns or
\* raises, get_attestation returns bytes, returns None or raises, and the
\* response key is there or not.
Fates ==
    [execute_ok : BOOLEAN, attestation : {"bytes", "none", "raises"},
     key_ok : BOOLEAN]

\* A mutant: an attestation that is None is put into the response as it is.
_prepare_response_any_attestation(attestation_bytes, key_ok) ==
    IF ~ key_ok THEN "raises" ELSE "ok"

\* _prepare_response: attestation.hex() raises on None, get_key and the
\* encryption may raise; else the encrypted bytes are returned.
_prepare_response(attestation_bytes, key_ok) ==
    IF attestation_bytes = "none" THEN "raises"
    ELSE IF ~ key_ok THEN "raises"
    ELSE "ok"

\* The stage of handle_request that raises once the model is at hand.
RaisedStage(fate) ==
    IF ~ fate.execute_ok THEN "compute"
    ELSE IF fate.attestation = "raises" THEN "attestation"
    ELSE IF _prepare_response(fate.attestation, fate.key_ok) = "raises" THEN "prepare"
    ELSE "none"

\* The Response handle_request returns: 200 with the prepared data, or 500
\* with the error message of the exception it caught.
Response(stage, fate) ==
    IF stage = "none"
    THEN [status |-> 200, result |-> TRUE,
          attestation |-> (fate.attestation = "bytes"), error |-> FALSE]
    ELSE [status |-> 500, result |-> FALSE, attestation |-> FALSE, error |-> TRUE]

\* The request ends: its Response is returned.
Respond(r, m, stage, fate) ==
    /\ requests' = [requests EXCEPT ![r] = [pc |-> "done", model_id |-> m,
                                            raised |-> stage]]
    /\ responses' = [responses EXCEPT ![r] = Append(@, Response(stage, fate))]

\* handle_request up to its first suspension: decode; _get_model finds the
\* model in the cache and the call runs to its end, or calls
\* runtime.get_model and awaits it.
handle_request(r, m, decode_ok, fate) ==
    /\ requests[r].pc = "idle"
    /\ IF ~ decode_ok
       THEN /\ Respond(r, m, "decode", fate)
            /\ UNCHANGED <<models_cache, get_model_calls, get_model_failures,
                           cache_stores>>
       ELSE IF m \in models_cache
       THEN /\ Respond(r, m, RaisedStage(fate), fate)
            /\ UNCHANGED <<models_cache, get_model_calls, get_model_failures,
                           cache_stores>>
       ELSE /\ requests' = [requests EXCEPT ![r] = [pc |-> "loading", model_id |-> m,
                                                    raised |-> "none"]]
            /\ get_model_calls' = [get_model_calls EXCEPT ![m] = @ + 1]
            /\ UNCHANGED <<responses, models_cache, get_model_failures, cache_stores>>
    /\ UNCHANGED <<startVars, pollVars, workerVars, aggVars, evalVars, dataVars>>

\* What becomes of a load: runtime.get_model raises; it answers and
\* _decrypt_model raises (as the file stands the method is missing and the
\* call raises AttributeError); or the model is decrypted.
LoadOutcomes == {"get_model_raises", "decrypt_raises", "loaded"}

\* runtime.get_model answers: the model is decrypted and cached and the call
\* runs to its end; or get_model or _decrypt_model raises and the cache is
\* left as it is.
GetModelReturn(r, load, fate) ==
    /\ requests[r].pc = "loading"
    /\ LET m == requests[r].model_id
       IN CASE load = "loaded" ->
                 /\ models_cache' = models_cache \cup {m}
                 /\ cache_stores' = [cache_stores EXCEPT ![m] = @ + 1]
                 /\ Respond(r, m, RaisedStage(fate), fate)
                 /\ UNCHANGED <<get_model_calls, get_model_failures>>
            [] load = "decrypt_raises" ->
                 /\ Respond(r, m, "decrypt", fate)
                 /\ UNCHANGED <<models_cache, get_model_calls, get_model_failures,
                                cache_stores>>
            [] load = "get_model_raises" ->
                 /\ get_model_failures' = [get_model_failures EXCEPT ![m] = @ + 1]
                 /\ Respond(r, m, "load", fate)
                 /\ UNCHANGED <<models_cache, get_model_calls, cache_stores>>
    /\ UNCHANGED <<startVars, pollVars, workerVars, aggVars, evalVars, dataVars>>

NextRofl ==
    \/ \E r \in 1 .. MaxRequests :
         /\ requests[r].pc = "idle"
         /\ \E m \in ModelIds, decode_ok \in BOOLEAN, fate \in Fates :
                handle_request(r, m, decode_ok, fate)
    \/ \E r \in 1 .. MaxRequests :
         /\ requests[r].pc = "loading"
         /\ \E load \in LoadOutcomes, fate \in Fates : GetModelReturn(r, load, fate)

SpecRofl == Init /\ [][NextRofl]_vars

\* --------------------- data_processing.py: SecureDataProcessor.process_dataset
\* The transformations a call asks for: none, one that changes the frame, or
\* one that raises (a selected feature the frame does not have).
Transformations == {"none", "normalize", "bad"}

\* _apply_transformations on a frame it can transform.
_apply_transformations(df, transformations) ==
    IF transformations = "none" THEN df ELSE [df EXCEPT !.transformed = TRUE]

\* The call ends with the exception re-raised.
ProcessRaise(stages, error) ==
    /\ dp' = "raised"
    /\ dp_err' = error
    /\ dp_stages' = stages

\* process_dataset up to the await of ocean.assets.download: _secure_download
\* resolves the asset and looks for its access service.
process_dataset(did, transformations, encrypt_output) ==
    /\ dp = "idle"
    /\ Len(uploaded) < MaxUploads
    /\ dp_did' = did
    /\ dp_transformations' = transformations
    /\ dp_encrypt' = encrypt_output
    /\ IF ~ assets[did].found
       THEN ProcessRaise([StagesPending EXCEPT !.resolve = "failed"], "ValueError")
       ELSE IF ~ assets[did].has_service
       THEN ProcessRaise([StagesPending EXCEPT !.resolve = "ok", !.service = "failed"],
                         "ValueError")
       ELSE /\ dp' = "downloading"
            /\ dp_err' = "none"
            /\ dp_stages' = [StagesPending EXCEPT !.resolve = "ok", !.service = "ok"]
    /\ UNCHANGED <<dp_pending, assets, uploaded,
                   startVars, pollVars, workerVars, aggVars, evalVars, roflVars>>

\* ocean.assets.download answers: the integrity check, the transformations,
\* the hash, the encryption if asked for, and _upload_to_ocean up to the
\* await of ocean.assets.create.  Encrypted data is bytes, on which
\* _upload_to_ocean's data.to_csv raises before anything is created.
DownloadReturn(download_ok) ==
    /\ dp = "downloading"
    /\ LET a == assets[dp_did]
           processed_data == _apply_transformations(read_csv(a.file), dp_transformations)
           data_hash == _generate_hash(processed_data)
           downloaded == [dp_stages EXCEPT !.download = "ok"]
           verified == [downloaded EXCEPT !.integrity = "ok"]
           transformed == [verified EXCEPT !.transform = "ok"]
       IN IF ~ download_ok
          THEN /\ ProcessRaise([dp_stages EXCEPT !.download = "failed"], "DownloadError")
               /\ UNCHANGED dp_pending
          ELSE IF ~ _verify_integrity(a.file, a.metadata)
          THEN /\ ProcessRaise([downloaded EXCEPT !.integrity = "failed"], "ValueError")
               /\ UNCHANGED dp_pending
          ELSE IF dp_transformations = "bad"
          THEN /\ ProcessRaise([verified EXCEPT !.transform = "failed"], "KeyError")
               /\ UNCHANGED dp_pending
          ELSE IF dp_encrypt
          THEN /\ ProcessRaise([transformed EXCEPT !.upload = "failed"], "AttributeError")
               /\ UNCHANGED dp_pending
          ELSE /\ dp' = "uploading"
               /\ dp_stages' = [transformed EXCEPT !.upload = "called"]
               /\ dp_pending' = [file |-> to_csv(processed_data),
                                 metadata |-> asset_metadata(data_hash)]
               /\ UNCHANGED dp_err
    /\ UNCHANGED <<dp_did, dp_transformations, dp_encrypt, assets, uploaded,
                   startVars, pollVars, workerVars, aggVars, evalVars, roflVars>>

\* ocean.assets.create answers: the asset is there under a new DID and
\* process_dataset returns; or it raises.
CreateReturn(create_ok) ==
    /\ dp = "uploading"
    /\ IF create_ok
       THEN /\ assets' = [assets EXCEPT ![CreatedDid(Len(uploaded) + 1)] =
                            [found |-> TRUE, has_service |-> TRUE,
                             file |-> dp_pending.file, metadata |-> dp_pending.metadata]]
            /\ uploaded' = Append(uploaded, CreatedDid(Len(uploaded) + 1))
            /\ dp' = "returned"
            /\ dp_stages' = [dp_stages EXCEPT !.upload = "ok"]
            /\ UNCHANGED dp_err
       ELSE /\ ProcessRaise([dp_stages EXCEPT !.upload = "failed"], "UploadError")
            /\ UNCHANGED <<assets, uploaded>>
    /\ dp_pending' = NoPending
    /\ UNCHANGED <<dp_did, dp_transformations, dp_encrypt,
                   startVars, pollVars, workerVars, aggVars, evalVars, roflVars>>

ProcessAgain ==
    /\ dp \in {"returned", "raised"}
    /\ dp' = "idle"
    /\ dp_err' = "none"
    /\ dp_stages' = StagesPending
    /\ UNCHANGED <<dp_did, dp_transformations, dp_encrypt, dp_pending, assets, uploaded,
                   startVars, pollVars, workerVars, aggVars, evalVars, roflVars>>

NextData ==
    \/ /\ dp = "idle"
       /\ \E did \in AllDids, transformations \in Transformations,
             encrypt_output \in BOOLEAN :
                process_dataset(did, transformations, encrypt_output)
    \/ \E download_ok \in BOOLEAN : DownloadReturn(download_ok)
    \/ \E create_ok \in BOOLEAN : CreateReturn(create_ok)
    \/ ProcessAgain

SpecData == Init /\ [][NextData]_vars

\* ================================================================ claims
Range(f) == {f[i] : i \in DOMAIN f}

\* C1 (dispatch isolation): when the dispatch of exactly one partition raises,
\* start_distributed_compute still hands every partition of the group to the
\* worker and does not raise to its caller.
C1_DispatchIsolation ==
    (ps \in {"returned", "raised"} /\ Cardinality(failed_parts) = 1)
        => /\ ps = "returned"
           /\ Len(submitted) = Len(partitions)

\* C2 (bounded polling): monitor_distributed_compute is not still polling or
\* sleeping once the timeout (TimeoutRounds check intervals) has elapsed.
TimeoutRounds == MaxRounds - 1
C2_BoundedPolling ==
    pm \in {"polling", "sleeping"} => rounds < TimeoutRounds

\* C3 (verification gating): in every aggregate result a job reported
\* 'completed' whose attestation fails verification is not a success: it is
\* not counted in success_count, its data is not in results and its metric
\* values enter no mean.
Unverified(j) == worker[j] = "completed" /\ attestation[j] # "valid"
C3_VerificationGating ==
    \A i \in DOMAIN agg_history :
        LET r == agg_history[i] IN
        /\ r.success_count =
              Cardinality({j \in DOMAIN worker :
                              worker[j] = "completed" /\ ~Unverified(j)})
        /\ \A j \in DOMAIN worker : Unverified(j) => j \notin Range(r.results)
        /\ \A k \in DOMAIN r.metrics :
              r.metrics[k].den <=
                 Cardinality({j \in DOMAIN worker :
                                 k \in DOMAIN job_metrics[j] /\ ~Unverified(j)})

\* C4 (status monotonicity): during a monitor call the status recorded for a
\* job never moves backwards, and a recorded 'completed' or 'failed' is never
\* replaced by another status.
StatusRank(st) ==
    CASE st = "none" -> 0
      [] st = "pending" -> 1
      [] st = "running" -> 2
      [] st \in TerminalStatuses -> 3
C4_StatusMonotone ==
    [][(pm # "idle" /\ pm' # "idle") =>
          \A j \in DOMAIN recorded :
              /\ StatusRank(recorded[j]) <= StatusRank(recorded'[j])
              /\ recorded[j] \in TerminalStatuses => recorded'[j] = recorded[j]]_vars

\* C5 (no partial dispatch on validation failure): a start call that raised
\* because the environment is unknown, a requested resource exceeds the
\* capacity or the partition configuration is rejected has handed no partition
\* to the worker, started no job and registered no job group.
ValidationErrors == {"ValueError", "TypeError"}
C5_NoPartialDispatch ==
    (ps = "raised" /\ start_err \in ValidationErrors)
        => /\ submitted = <<>>
           /\ compute_jobs = <<>>
           /\ Len(registered) < start_calls
C5_Witness ==
    /\ ps = "raised"
    /\ start_err = "ValueError"
    /\ environment_name = "pytorch-gpu"
    /\ compute_config.kind = "resources"
    /\ NumPartitions(partition_config) >= 2
    /\ submitted = <<>>

\* C6 (count invariant): every aggregate result, also that of a call during
\* which the worker moved a job, has success_count + failed_count equal to
\* the number of jobs of the group.
C6_CountInvariant ==
    \A r \in Range(agg_history) \cup Range(agg_last) :
        r.success_count + r.failed_count = Len(jobs)
C6_Witness ==
    \E i \in DOMAIN agg_history :
        /\ agg_history[i].success_count >= 1
        /\ agg_history[i].failed_count >= 1
        /\ \E j \in DOMAIN worker : worker[j] \notin {"completed", "failed"}

\* C7 (aggregation idempotence): the results _aggregate_results returned for a
\* group of terminal jobs whose state did not change in between are identical,
\* and a call that returns leaves the jobs, their reported state and their
\* metrics as they were.
AllTerminal == \A j \in DOMAIN worker : worker[j] \in TerminalStatuses
C7_AggregationIdempotent ==
    /\ [](AllTerminal =>
            \A i, k \in DOMAIN agg_history : agg_history[i] = agg_history[k])
    /\ [][Len(agg_history') > Len(agg_history) =>
            UNCHANGED <<jobs, worker, attestation, job_metrics, recorded>>]_vars
C7_Witness ==
    /\ Len(agg_history) >= 2
    /\ AllTerminal
    /\ Len(jobs) >= 2
    /\ agg_history[2].success_count >= 1
    /\ agg_history[2].failed_count >= 1
    /\ "accuracy" \in DOMAIN agg_history[2].metrics

\* C8 (aggregation precondition): for a group with a job that is not yet
\* terminal, _aggregate_results returns no aggregate result.
C8_GroupNotTerminal ==
    (pa = "ready" /\ ~AllTerminal) => agg_history = <<>>

\* C9 (partition coverage): for num_partitions = k with 1 <= k <= S the record
\* ranges of the partitions cover the S records, one partition per record.
C9_PartitionCoverage ==
    (/\ ps \in {"dispatching", "returned"}
     /\ partition_config.num_kind = "int"
     /\ 1 <= partition_config.num
     /\ partition_config.num <= dataset_size)
        => /\ Len(partitions) = partition_config.num
           /\ UNION {RecordsOf(partitions[i], dataset_size) : i \in DOMAIN partitions}
                 = 1 .. dataset_size
           /\ \A i, j \in DOMAIN partitions :
                 i # j => RecordsOf(partitions[i], dataset_size)
                            \cap RecordsOf(partitions[j], dataset_size) = {}

\* C10 (partitioner input validation): with num_partitions < 1 or a strategy
\* that is not equal_size, by_key or custom, a start call in a valid
\* environment raises ConfigurationError and no partition list is produced.
KnownStrategies == {"equal_size", "by_key", "custom"}
BadPartitionConfig(pcfg) ==
    \/ pcfg.num_kind = "int" /\ pcfg.num < 1
    \/ pcfg.strategy \notin KnownStrategies \cup {"absent"}
C10_PartitionConfigRejected ==
    (/\ ps # "idle"
     /\ BadPartitionConfig(partition_config)
     /\ _validate_environment(environment_name, compute_config) = "ok")
        => /\ ps = "raised"
           /\ start_err = "ConfigurationError"

\* C15 (group identity): two start calls that returned never gave back the
\* same group id.
C15_GroupIdsDistinct ==
    \A i, k \in DOMAIN group_ids : i # k => group_ids[i] # group_ids[k]

\* C16 (the tracker records the dispatched group): once a start call has
\* returned group id g, the tracker answers for g the jobs that were
\* dispatched, one per partition.
C16_TrackerHoldsGroup ==
    ps = "returned"
        => get_jobs_in_group(group_ids[Len(group_ids)]) = compute_jobs

\* C17 (environment validation): in a catalogued environment a start call
\* whose requested amounts are numbers, for resources whose declared capacity
\* is a number (0 for a resource the environment does not declare), is
\* rejected by _validate_environment (ValueError, nothing dispatched) exactly
\* when some requested amount exceeds the declared capacity.
AmountsRequested(env, cfg) ==
    \A i \in DOMAIN cfg.resources :
        /\ cfg.resources[i].required.kind = "int"
        /\ Capacity(env, cfg.resources[i].resource).kind = "int"
RequestExceeds(env, cfg) ==
    /\ cfg.kind = "resources"
    /\ \E i \in DOMAIN cfg.resources :
          cfg.resources[i].required.n > Capacity(env, cfg.resources[i].resource).n
C17_EnvironmentValidation ==
    (/\ ps # "idle"
     /\ environment_name \in DOMAIN _initialize_environments
     /\ AmountsRequested(environment_name, compute_config))
        => /\ (start_err = "ValueError")
                 <=> RequestExceeds(environment_name, compute_config)
           /\ start_err = "ValueError" => (ps = "raised" /\ submitted = <<>>)
           /\ ~RequestExceeds(environment_name, compute_config)
                 => start_err \notin ValidationErrors
                      \/ partition_config.num_kind = "nonint"
C17_Witness ==
    /\ ps = "raised"
    /\ start_err = "ValueError"
    /\ environment_name = "sklearn-cpu"
    /\ compute_config.kind = "resources"
    /\ compute_config.resources = <<Item("gpu_count", Num(1))>>

\* C19 (fan-out dispatch): while partitions of the group are still to be
\* submitted, the next submit call can be issued, also when an earlier
\* dispatch has not returned.
C19_FanOutDispatch ==
    (ps = "hung" /\ Len(submitted) < Len(partitions))
        => ENABLED (DispatchOk \/ DispatchRaise \/ DispatchHang)

\* C13 (per-metric mean): every result for a group whose jobs have all ended
\* aggregates a metric exactly when some
\* job that ended 'completed' reported it, and its value is the mean of the
\* values those jobs reported: a job that omits the metric is not in the
\* denominator and a job that did not complete contributes nothing.
CompletedReporting(k) ==
    {j \in DOMAIN jobs : worker[j] = "completed" /\ k \in DOMAIN job_metrics[j]}
RECURSIVE MetricSum(_, _)
MetricSum(S, k) ==
    IF S = {} THEN 0
    ELSE LET j == CHOOSE x \in S : TRUE
         IN job_metrics[j][k] + MetricSum(S \ {j}, k)
ReportedMetrics == UNION {DOMAIN job_metrics[j] : j \in DOMAIN jobs}
C13_PerMetricMean ==
    \A i \in DOMAIN agg_history :
        LET r == agg_history[i]
        IN AllTerminal =>
           /\ DOMAIN r.metrics = {k \in ReportedMetrics : CompletedReporting(k) # {}}
           /\ \A k \in DOMAIN r.metrics :
                r.metrics[k].num * Cardinality(CompletedReporting(k))
                    = MetricSum(CompletedReporting(k), k) * r.metrics[k].den

\* C14 (a failed job contributes only a count): in every result for a group
\* whose jobs have all ended the collected
\* results are those of the jobs that ended 'completed' and total_compute_time
\* is the sum of the compute times of those jobs alone.
CompletedJobs == {j \in DOMAIN jobs : worker[j] = "completed"}
RECURSIVE ComputeTimeSum(_)
ComputeTimeSum(S) ==
    IF S = {} THEN 0
    ELSE LET j == CHOOSE x \in S : TRUE
         IN _get_job_results(j, worker).compute_time + ComputeTimeSum(S \ {j})
C14_FailedJobsOnlyCounted ==
    \A i \in DOMAIN agg_history :
        AllTerminal =>
        /\ Len(agg_history[i].results) = Cardinality(CompletedJobs)
        /\ agg_history[i].total_compute_time = ComputeTimeSum(CompletedJobs)

\* C20 (no head-of-line blocking in polling): while a status query for one
\* job has not answered, the jobs after it in the group can still be queried,
\* and a status query that raises does not make the monitor call raise: the
\* call raises only when aggregation does.
C20_NoHeadOfLineBlocking ==
    /\ (pm = "hung" /\ poll_idx < Len(jobs))
            => ENABLED (PollJob \/ PollRaise \/ PollHang)
    /\ pm = "raised" => agg_raised

\* C11 (confidence bounds): the confidence_score a returned evaluation carries
\* lies in [0, 1], and is 0 when no job's results were collected.
C11_ConfidenceBounds ==
    pe = "returned"
        => /\ 0 <= confidence_score.num
           /\ confidence_score.num <= confidence_score.den
           /\ eval_results = {} => confidence_score.num = 0

\* C12 (confidence formula): for a group of at least one job the returned
\* confidence_score is the mean of the success fraction (collected jobs over
\* group size) and the verification confidence.
C12_ConfidenceFormula ==
    (pe = "returned" /\ Len(eval_jobs) > 0)
        => confidence_score.num * 2 * Len(eval_jobs)
              = (Cardinality(eval_results) + verification.confidence * Len(eval_jobs))
                    * confidence_score.den

\* C18 (a verification failure is absorbed, not thrown): a job whose
\* attestation is found invalid does not end the evaluation of its group
\* with an exception.
C18_VerificationFailureAbsorbed ==
    (\E j \in DOMAIN eval_attestation : eval_attestation[j] # "valid")
        => ~ (pe = "raised" /\ eval_err = "ValueError")

\* C22 (cancellation): once the caller has cancelled the monitor call, every
\* job of the group is in a terminal state: the jobs that had not ended were
\* moved to failed, in the tracker's record and at the worker.
C22_CancellationFailsJobs ==
    pm = "cancelled"
        => \A j \in DOMAIN jobs :
              /\ recorded[j] \in TerminalStatuses
              /\ worker[j] \in TerminalStatuses

\* C25 (the monitor aggregates once, after a round of terminal statuses):
\* while the call polls or sleeps no _aggregate_results call was made; it
\* sleeps only after a full round with a status other than
\* 'completed'/'failed'; every round queries every job; and it ends with one
\* _aggregate_results call made after a full round of terminal statuses,
\* with no status query at all for a group of no job.
C25_AggregateOnceAfterTerminalRound ==
    /\ pm \in {"polling", "sleeping", "hung"}
            => (agg_calls = 0 /\ agg_last = <<>> /\ ~ agg_raised)
    /\ agg_calls <= 1
    /\ pm \in {"polling", "sleeping"}
            => status_queries = rounds * Len(jobs) + Len(statuses)
    /\ pm = "sleeping"
            => /\ Len(statuses) = Len(jobs)
               /\ \E i \in DOMAIN statuses : statuses[i] \notin TerminalStatuses
    /\ (pm \in {"aggregating", "returned"} \/ (pm = "raised" /\ agg_raised))
            => /\ agg_calls = 1
               /\ Len(agg_last) = (IF pm = "returned" THEN 1 ELSE 0)
               /\ Len(statuses) = Len(jobs)
               /\ \A i \in DOMAIN statuses : statuses[i] \in TerminalStatuses
               /\ status_queries = (rounds + 1) * Len(jobs)
C25_Witness ==
    /\ pm = "returned"
    /\ rounds >= 1
    /\ Len(jobs) = 2
    /\ Len(agg_last) = 1
    /\ agg_moves > 0

\* C26 (register once, after every dispatch): register_job_group is called
\* only when a start call returns, once, with one job per partition in
\* partition order and no dispatch having raised; a call whose dispatch
\* raises registers nothing and gives back no group id.
C26_RegisterOnceAfterDispatch ==
    [][/\ registered' # registered
            => /\ ps # "returned" /\ ps' = "returned"
               /\ registered' = Append(registered, compute_jobs')
               /\ Len(compute_jobs') = Len(partitions')
               /\ \A i \in DOMAIN compute_jobs' :
                     compute_jobs'[i].partition = partitions'[i]
               /\ failed_parts' = {}
       /\ (ps # "returned" /\ ps' = "returned")
            => Len(registered') = Len(registered) + 1
       /\ ps' = "raised"
            => (registered' = registered /\ group_ids' = group_ids)]_vars
C26_Witness ==
    /\ ps = "raised"
    /\ start_err = "DispatchFailure"
    /\ compute_jobs # <<>>
    /\ registered # <<>>

\* C21 (single verification per job): for every job whose result an
\* aggregation run used, the attestation verifier was invoked on the job at
\* least once, and at most once per run.
ResultUsed(j) ==
    \E i \in DOMAIN agg_history : j \in Range(agg_history[i].results)
C21_SingleVerificationPerJob ==
    \A j \in DOMAIN jobs :
        ResultUsed(j)
            => (verifier_calls[j] >= 1 /\ verifier_calls[j] <= Len(agg_history))

\* C24 (unknown metrics fail fast): once the metrics of an evaluation are
\* calculated, every requested metric type is a registry type and is in the
\* result, and no entry of the result is None.
C24_UnknownMetricsFailFast ==
    pe \in {"verifying", "returned"}
        => /\ metric_types \subseteq DOMAIN metrics_registry
           /\ DOMAIN eval_metrics = metric_types
           /\ \A t \in DOMAIN eval_metrics : \A name \in DOMAIN eval_metrics[t] :
                 ~ eval_metrics[t][name].is_none

\* C23 (verifier check order): the verdict on a job's attestation is valid
\* exactly when all four checks pass, and otherwise carries the reason of the
\* earliest failing check: signature, then signer, then measurement, then
\* freshness.
C23_VerifierCheckOrder ==
    \A j \in DOMAIN eval_evidence :
        LET a == eval_evidence[j]
            verdict == eval_attestation[j]
        IN /\ verdict = "valid"
                <=> (a.signature_valid /\ a.signer_trusted
                        /\ a.measurement_approved /\ a.fresh)
           /\ ~ a.signature_valid => verdict = "SignatureInvalid"
           /\ (a.signature_valid /\ ~ a.signer_trusted) => verdict = "UntrustedSigner"
           /\ (a.signature_valid /\ a.signer_trusted /\ ~ a.measurement_approved)
                => verdict = "MeasurementMismatch"
           /\ (a.signature_valid /\ a.signer_trusted /\ a.measurement_approved
                    /\ ~ a.fresh) => verdict = "StaleAttestation"
C23_Witness ==
    /\ pe = "raised"
    /\ eval_err = "ValueError"
    /\ Len(eval_jobs) = 2
    /\ eval_results = {1}
    /\ ~ eval_evidence[2].measurement_approved
    /\ ~ eval_evidence[2].fresh
    /\ eval_attestation[2] = "MeasurementMismatch"

\* C27 (handle_request never raises): every request that has ended has
\* exactly one Response and no other has any; it is a 200 exactly when no
\* stage raised, a 200 carries the result and an attestation and no error,
\* and a 500 carries the error alone.
C27_OneResponsePerRequest ==
    \A r \in DOMAIN requests :
        /\ Len(responses[r]) = (IF requests[r].pc = "done" THEN 1 ELSE 0)
        /\ \A i \in DOMAIN responses[r] :
             LET resp == responses[r][i]
             IN /\ resp.status \in {200, 500}
                /\ resp.status = 200 <=> requests[r].raised = "none"
                /\ resp.status = 200
                      => (resp.result /\ resp.attestation /\ ~ resp.error)
                /\ resp.status = 500
                      => (resp.error /\ ~ resp.result /\ ~ resp.attestation)
C27_Witness ==
    /\ requests[1].pc = "done" /\ responses[1][1].status = 200
    /\ requests[2].pc = "done" /\ requests[2].raised = "prepare"

\* C28 (the model cache loads once): for every model id at most one load
\* succeeded, that is, runtime.get_model answered and the model was decrypted
\* and put into the cache at most once.
C28_ModelLoadedOnce ==
    \A m \in ModelIds : cache_stores[m] <= 1

\* C29 (upload gated by the verified download): _upload_to_ocean is reached
\* only when the asset resolved, has an access service, its downloaded file
\* has the digest its metadata names and the transformations completed; when
\* one of those steps fails the call raises without reaching the upload; and
\* an asset is created only by a call whose upload step succeeded.
DownloadSteps == {"resolve", "service", "download", "integrity", "transform"}
C29_UploadGatedByIntegrity ==
    /\ [](/\ dp_stages.upload # "pending"
                => /\ assets[dp_did].found
                   /\ assets[dp_did].has_service
                   /\ sha3_256(assets[dp_did].file) = assets[dp_did].metadata.contentHash
                   /\ \A st \in DownloadSteps : dp_stages[st] = "ok"
          /\ (\E st \in DownloadSteps : dp_stages[st] = "failed")
                => (dp = "raised" /\ dp_stages.upload = "pending"))
    /\ [][uploaded' # uploaded
            => /\ dp_stages'.upload = "ok"
               /\ \A st \in DownloadSteps : dp_stages'[st] = "ok"]_vars
C29_Witness ==
    /\ Len(uploaded) = 1
    /\ dp = "raised"
    /\ dp_did = Did("did:op:tampered", 0)
    /\ dp_stages.integrity = "failed"

\* C30 (integrity round trip): every asset process_dataset created passes
\* _verify_integrity: the digest of its file is the contentHash its metadata
\* gives.
C30_IntegrityRoundTrip ==
    \A i \in DOMAIN uploaded :
        _verify_integrity(assets[uploaded[i]].file, assets[uploaded[i]].metadata)
====
